---- MODULE Spec2Model ----
(***************************************************************************)
(* The publish state machine of the MQTT client (src/client/publish.rs):   *)
(* State::poll, State::new_connection and PublishHandle::publish, together *)
(* with the packet identifier pool that poll and new_connection are handed.*)
(***************************************************************************)
EXTENDS Integers, Sequences, FiniteSets, TLC

\* Bounds of the model.
MaxId == 2        \* packet identifiers are 1..MaxId (1..65535 in the program)
MaxSubmit == 4    \* number of publications submitted through the handle
MaxServerId == 1  \* the server's own PUBLISH flows use identifiers 1..MaxServerId
MaxCallerSubmit == 2    \* CallerSpec: number of publications submitted
MaxCallerServerId == 2  \* CallerSpec: the server's flows use 1..MaxCallerServerId

\* futures::sync::mpsc::channel(0): the buffer of the request channel.
ChannelBuffer == 0

Ids == 1 .. MaxId
ServerIds == 1 .. MaxServerId
CallerServerIds == 1 .. MaxCallerServerId
FlowIds == ServerIds \cup CallerServerIds
QoS == {"AtMostOnce", "AtLeastOnce", "ExactlyOnce"}

VARIABLES
    publish_request_recv,                  \* requests in the mpsc channel
    publish_requests_waiting_to_be_sent,   \* VecDeque<PublishRequest>
    waiting_to_be_acked,                   \* BTreeMap id -> (ack_sender, packet)
    waiting_to_be_released,                \* BTreeSet of ids
    waiting_to_be_completed,               \* BTreeMap id -> (ack_sender, packet)
    packet_identifiers,                    \* the identifier pool
    panicked,                              \* poll has panicked (assert! failed)
    submitted,     \* history: the number of publications submitted
    notified,      \* history: per publication, how often its ack_sender was signalled
    sent,          \* history: the latest publication handed out as a first transmission
    delivered,     \* history: ReceivedPublications of the open inbound QoS 2 flow
    futures,       \* per publication, the future PublishHandle::publish returned
    stopped,       \* the State has been dropped (the client has stopped)
    inbox,         \* packets of the server on their way to the client
    last           \* history: the last call, its input, its pre-state, its result

vars == << publish_request_recv, publish_requests_waiting_to_be_sent,
           waiting_to_be_acked, waiting_to_be_released, waiting_to_be_completed,
           packet_identifiers, panicked, submitted, notified, sent, delivered,
           futures, stopped, inbox, last >>

----------------------------------------------------------------------------
\* Packets (crate::proto::Packet). n is the payload: the number of the
\* publication the packet carries (0 for packets of the server).

Publish(qos, id, dup, n) ==
    [type |-> "Publish", id |-> id, qos |-> qos, dup |-> dup, n |-> n]

Ack(type, id) ==
    [type |-> type, id |-> id, qos |-> "none", dup |-> FALSE, n |-> 0]

NoPacket == Ack("None", 0)

NoPublication == [qos |-> "none", dup |-> FALSE]

\* The packets poll is given: acknowledgements of any identifier the client
\* may have used, and the PUBLISH and PUBREL packets of the server's own flows.
InboundPackets ==
    {NoPacket, Publish("AtMostOnce", 0, FALSE, 0)}
    \cup {Ack(t, i) : t \in {"PubAck", "PubComp", "PubRec"}, i \in Ids}
    \cup {Ack("PubRel", i) : i \in ServerIds}
    \cup {Publish(q, i, d, 0) :
            q \in {"AtLeastOnce", "ExactlyOnce"}, i \in ServerIds, d \in BOOLEAN}

----------------------------------------------------------------------------
\* BTreeMap and BTreeSet helpers.

EmptyMap == [x \in {} |-> x]

MapRemove(m, k) == [x \in DOMAIN m \ {k} |-> m[x]]

MapInsert(m, k, v) == [x \in DOMAIN m \cup {k} |-> IF x = k THEN v ELSE m[x]]

\* BTreeMap::append: the entries of other move into m; on an equal key the
\* value of other replaces the value of m.
MapAppend(m, other) ==
    [x \in DOMAIN m \cup DOMAIN other |-> IF x \in DOMAIN other THEN other[x] ELSE m[x]]

Min(S) == CHOOSE x \in S : \A y \in S : x <= y

RECURSIVE Ascending(_)
Ascending(S) ==
    IF S = {} THEN << >> ELSE << Min(S) >> \o Ascending(S \ {Min(S)})

RECURSIVE MapSeq(_, _)
MapSeq(m, keys) ==
    IF keys = << >> THEN << >> ELSE << m[Head(keys)] >> \o MapSeq(m, Tail(keys))

\* BTreeMap::values(): the values in ascending key order.
Values(m) == MapSeq(m, Ascending(DOMAIN m))

----------------------------------------------------------------------------
\* The packet identifier pool (super::PacketIdentifiers): a set of identifiers
\* in use and a cursor.

Free(pool) == Ids \ pool.in_use

\* reserve(): the lowest free identifier >= cursor, wrapping once; marks it
\* used and advances the cursor. Fails when every identifier is in use.
Reserve(pool) ==
    IF Free(pool) = {}
    THEN [err |-> TRUE, id |-> 0, pool |-> pool]
    ELSE LET ahead == {i \in Free(pool) : i >= pool.cursor}
             id == IF ahead # {} THEN Min(ahead) ELSE Min(Free(pool))
         IN [err |-> FALSE, id |-> id,
             pool |-> [in_use |-> pool.in_use \cup {id},
                       cursor |-> IF id = MaxId THEN 1 ELSE id + 1]]

\* discard(id): marks the identifier free.
Discard(pool, id) == [pool EXCEPT !.in_use = @ \ {id}]

\* A discard as the history records it: the identifier and whether the pool
\* held it as reserved when discard was called.
Discarded(pool, id) == [id |-> id, reserved |-> id \in pool.in_use]

RECURSIVE DiscardAll(_, _)
DiscardAll(pool, ids) ==
    IF ids = << >> THEN pool ELSE DiscardAll(Discard(pool, Head(ids)), Tail(ids))

RECURSIVE DiscardedAll(_, _)
DiscardedAll(pool, ids) ==
    IF ids = << >> THEN << >>
    ELSE << Discarded(pool, Head(ids)) >> \o DiscardedAll(Discard(pool, Head(ids)), Tail(ids))

----------------------------------------------------------------------------
\* State::poll, the inbound packet (the match on packet.take()).
\* st is [acked, released, completed, pool]; the result adds the outbound
\* packets pushed, the publication received, the ack_senders signalled, the
\* discards made and whether the handler panicked.

Handled(st) ==
    [acked |-> st.acked, released |-> st.released, completed |-> st.completed,
     pool |-> st.pool, packets |-> << >>, pub |-> NoPublication,
     signals |-> << >>, discards |-> << >>, panic |-> FALSE]

\* ack_sender.send(()): the ack_sender of publication n, stored with a PUBLISH
\* of the given QoS, is signalled on the given packet.
Signal(n, qos, by) == [n |-> n, qos |-> qos, by |-> by]

\* OnPubAck that discards the identifier whether or not it has an entry.
OnPubAckDiscardingUnknown(id, st) ==
    IF id \in DOMAIN st.acked
    THEN [Handled(st) EXCEPT
            !.acked = MapRemove(st.acked, id),
            !.pool = Discard(st.pool, id),
            !.discards = << Discarded(st.pool, id) >>,
            !.signals = << Signal(st.acked[id].n, st.acked[id].packet.qos, "PubAck") >>]
    ELSE [Handled(st) EXCEPT
            !.pool = Discard(st.pool, id),
            !.discards = << Discarded(st.pool, id) >>]

\* OnPubAck that leaves the entry alone when the future of its publication
\* has been dropped.
OnPubAckUnlessDropped(id, st) ==
    IF id \in DOMAIN st.acked /\ futures[st.acked[id].n] # "Dropped"
    THEN [Handled(st) EXCEPT
            !.acked = MapRemove(st.acked, id),
            !.pool = Discard(st.pool, id),
            !.discards = << Discarded(st.pool, id) >>,
            !.signals = << Signal(st.acked[id].n, st.acked[id].packet.qos, "PubAck") >>]
    ELSE Handled(st)

OnPubAck(id, st) ==
    IF id \in DOMAIN st.acked
    THEN [Handled(st) EXCEPT
            !.acked = MapRemove(st.acked, id),
            !.pool = Discard(st.pool, id),
            !.discards = << Discarded(st.pool, id) >>,
            !.signals = << Signal(st.acked[id].n, st.acked[id].packet.qos, "PubAck") >>]
    ELSE Handled(st)

OnPubComp(id, st) ==
    IF id \in DOMAIN st.completed
    THEN [Handled(st) EXCEPT
            !.completed = MapRemove(st.completed, id),
            !.pool = Discard(st.pool, id),
            !.discards = << Discarded(st.pool, id) >>,
            !.signals = << Signal(st.completed[id].n, st.completed[id].packet.qos, "PubComp") >>]
    ELSE Handled(st)

\* The test that an inbound ExactlyOnce PUBLISH was already received.
AlreadyReceived(released, id) == id \in released

OnPublish(p, st) ==
    LET again == p.qos = "ExactlyOnce" /\ AlreadyReceived(st.released, p.id)
        acks == CASE p.qos = "AtMostOnce" -> << >>
                  [] p.qos = "AtLeastOnce" -> << Ack("PubAck", p.id) >>
                  [] p.qos = "ExactlyOnce" -> << Ack("PubRec", p.id) >>
    IN IF again /\ ~p.dup
       THEN [Handled(st) EXCEPT !.panic = TRUE]
       ELSE [Handled(st) EXCEPT
               !.released = IF p.qos = "ExactlyOnce" /\ ~again
                            THEN st.released \cup {p.id} ELSE st.released,
               !.pub = IF again THEN NoPublication
                       ELSE [qos |-> p.qos,
                             dup |-> IF p.qos = "AtMostOnce" THEN FALSE ELSE p.dup],
               !.packets = acks]

OnPubRec(id, st) ==
    [Handled(st) EXCEPT
        !.acked = MapRemove(st.acked, id),
        !.completed = IF id \in DOMAIN st.acked
                      THEN MapInsert(st.completed, id, st.acked[id])
                      ELSE st.completed,
        !.packets = << Ack("PubRel", id) >>]

OnPubRel(id, st) ==
    IF id \in st.released
    THEN [Handled(st) EXCEPT
            !.released = st.released \ {id},
            !.pool = Discard(st.pool, id),
            !.discards = << Discarded(st.pool, id) >>,
            !.packets = << Ack("PubComp", id) >>]
    ELSE [Handled(st) EXCEPT !.packets = << Ack("PubComp", id) >>]

HandleInbound(p, st) ==
    CASE p.type = "PubAck" -> OnPubAck(p.id, st)
      [] p.type = "PubComp" -> OnPubComp(p.id, st)
      [] p.type = "Publish" -> OnPublish(p, st)
      [] p.type = "PubRec" -> OnPubRec(p.id, st)
      [] p.type = "PubRel" -> OnPubRel(p.id, st)
      [] OTHER -> Handled(st)

----------------------------------------------------------------------------
\* State::poll, the loop over publish_requests_waiting_to_be_sent.
\* A request is [n, qos]; its ack_sender is identified by n.

\* PushFront with the request put back at the tail of the queue.
PushBack(queue, request) == Append(queue, request)

\* VecDeque::push_front of the request that could not get an identifier.
PushFront(queue, request) == << request >> \o queue

\* The entry stored for a request: its ack_sender and the PUBLISH to replay.
StoredEntry(request, id) ==
    [n |-> request.n, packet |-> Publish(request.qos, id, TRUE, request.n)]

RECURSIVE SendRequests(_)

\* One turn of the loop, and the turns after it.
SendRequest(s) ==
    IF s.queue = << >> THEN s
    ELSE LET request == Head(s.queue)
             popped == [s EXCEPT !.queue = Tail(s.queue)]
         IN IF request.qos = "AtMostOnce"
            THEN SendRequests([popped EXCEPT
                    !.packets = Append(@, Publish("AtMostOnce", 0, FALSE, request.n)),
                    !.signals = Append(@, Signal(request.n, request.qos, "None"))])
            ELSE LET r == Reserve(popped.pool)
                 IN IF r.err
                    THEN [popped EXCEPT
                            !.queue = PushFront(popped.queue, request),
                            !.err = TRUE]
                    ELSE SendRequests([popped EXCEPT
                            !.pool = r.pool,
                            !.acked = MapInsert(@, r.id, StoredEntry(request, r.id)),
                            !.packets = Append(@, Publish(request.qos, r.id, FALSE, request.n)),
                            !.reserved = Append(@, [id |-> r.id,
                                outstanding |-> r.id \in DOMAIN popped.acked
                                                        \cup DOMAIN popped.completed])])

\* The loop, from the state s of the call: the queue, the structures and the
\* pool it works on, and what the call has built so far.
SendRequests(state) ==
    CHOOSE result \in {SendRequest(s) : s \in {state}} : TRUE

----------------------------------------------------------------------------
\* State::new_connection.

\* ResetSession without the loop that empties waiting_to_be_released.
ResetSessionKeepReleased(st) ==
    [acked |-> MapAppend(st.acked, st.completed),
     released |-> st.released,
     completed |-> EmptyMap,
     pool |-> st.pool]

\* The reset_session branch: waiting_to_be_completed moves back into
\* waiting_to_be_acked, waiting_to_be_released is emptied and each of its
\* identifiers discarded.
ResetSession(st) ==
    [acked |-> MapAppend(st.acked, st.completed),
     released |-> {},
     completed |-> EmptyMap,
     pool |-> DiscardAll(st.pool, Ascending(st.released))]

\* SessionAfter with the reset branch taken whatever reset_session is.
SessionAlwaysReset(reset_session, st) == ResetSession(st)

SessionAfter(reset_session, st) ==
    IF reset_session THEN ResetSession(st) ELSE st

RECURSIVE StoredPackets(_)
StoredPackets(entries) ==
    IF entries = << >> THEN << >>
    ELSE << Head(entries).packet >> \o StoredPackets(Tail(entries))

RECURSIVE PubRecs(_)
PubRecs(ids) ==
    IF ids = << >> THEN << >>
    ELSE << Ack("PubRec", Head(ids)) >> \o PubRecs(Tail(ids))

\* Replay with the entries of waiting_to_be_acked in descending order of
\* identifier.
ReplayDescending(st) ==
    StoredPackets(MapSeq(st.acked, [i \in 1 .. Cardinality(DOMAIN st.acked) |->
        Ascending(DOMAIN st.acked)[Cardinality(DOMAIN st.acked) + 1 - i]]))
    \o PubRecs(Ascending(st.released))
    \o StoredPackets(Values(st.completed))

\* The iterator new_connection returns.
Replay(st) ==
    StoredPackets(Values(st.acked))
    \o PubRecs(Ascending(st.released))
    \o StoredPackets(Values(st.completed))

----------------------------------------------------------------------------
\* History bookkeeping.

RECURSIVE ApplySignals(_, _)
ApplySignals(nt, signals) ==
    IF signals = << >> THEN nt
    ELSE ApplySignals([nt EXCEPT ![Head(signals).n] = @ + 1],
                      Tail(signals))

RECURSIVE FirstTransmissions(_)
FirstTransmissions(packets) ==
    IF packets = << >> THEN << >>
    ELSE (IF Head(packets).type = "Publish" /\ Head(packets).n > 0 /\ ~Head(packets).dup
          THEN << Head(packets).n >> ELSE << >>)
         \o FirstTransmissions(Tail(packets))

Range(seq) == {seq[i] : i \in 1 .. Len(seq)}

\* The publications whose ack_sender a map holds.
Stored(m) == {m[id].n : id \in DOMAIN m}

RECURSIVE Requests(_)
Requests(queue) ==
    IF queue = << >> THEN {} ELSE {Head(queue).n} \cup Requests(Tail(queue))

\* The publications whose ack_sender the state holds: in a request not yet
\* sent or in an entry of waiting_to_be_acked or waiting_to_be_completed.
Holders(queue, acked, completed) ==
    Requests(queue) \cup Stored(acked) \cup Stored(completed)

\* AckReceiver with the cancellation of a dropped ack_sender taken for success.
AckReceiverIgnoringCancel(signalled, held) ==
    IF signalled \/ ~held THEN "Ok" ELSE "Pending"

\* ack_receiver.map_err(|_| ClientDoesNotExist): the future is Ok once the
\* ack_sender was signalled, ClientDoesNotExist once the ack_sender was dropped
\* without that, and pending while the state holds the ack_sender.
AckReceiver(signalled, held) ==
    IF signalled THEN "Ok"
    ELSE IF ~held THEN "ClientDoesNotExist"
    ELSE "Pending"

\* The futures after a call that signalled the ack_senders of `signalled` and
\* left the state holding those of `held`.
Resolved(fs, signalled, held) ==
    [n \in DOMAIN fs |->
        IF fs[n] = "Pending" THEN AckReceiver(n \in signalled, n \in held) ELSE fs[n]]

Current ==
    [acked |-> waiting_to_be_acked, released |-> waiting_to_be_released,
     completed |-> waiting_to_be_completed, pool |-> packet_identifiers]

Increasing(ns) == \A i \in 1 .. Len(ns) - 1 : ns[i] < ns[i + 1]

Max(a, b) == IF a >= b THEN a ELSE b

RECURSIVE Highest(_, _)
Highest(ns, least) ==
    IF ns = << >> THEN least ELSE Highest(Tail(ns), Max(least, Head(ns)))

\* The state a call starts from.
Snapshot ==
    [acked |-> waiting_to_be_acked, released |-> waiting_to_be_released,
     completed |-> waiting_to_be_completed, pool |-> packet_identifiers,
     queue |-> publish_requests_waiting_to_be_sent, recv |-> publish_request_recv]

NoSnapshot ==
    [acked |-> EmptyMap, released |-> {}, completed |-> EmptyMap,
     pool |-> [in_use |-> {}, cursor |-> 1], queue |-> << >>, recv |-> << >>]

\* The record of a call: its input (pkt, reset), how it ended (err: the
\* pool-exhaustion error; panic; result: what publish answered), what it
\* returned (packets, pub), what it had built and did not return (built), the
\* ack_senders it signalled, its discards and reservations, and of the state
\* it started from: whether pkt.id was in waiting_to_be_released (again), the
\* ReceivedPublications of that inbound flow so far (flow), the latest first
\* transmission handed out (sent), the number of requests an earlier poll
\* left queued (stalled), the publication at the head of those (head, 0 if
\* none), the publication whose entry pkt acknowledges (held, 0 if none: the
\* entry of pkt.id in waiting_to_be_completed for a PUBCOMP, in
\* waiting_to_be_acked for any other packet) and, for new_connection, the
\* whole state.
Call(op, pkt, reset, err, panic, packets, pub, signals, discards, reserved) ==
    [op |-> op, pkt |-> pkt, reset |-> reset, err |-> err, panic |-> panic,
     packets |-> packets, pub |-> pub, signals |-> signals, discards |-> discards,
     reserved |-> reserved, result |-> "none",
     built |-> [packets |-> << >>, pub |-> NoPublication],
     again |-> pkt.id \in waiting_to_be_released,
     flow |-> IF pkt.id \in FlowIds THEN delivered[pkt.id] ELSE 0,
     sent |-> sent,
     stalled |-> Len(publish_requests_waiting_to_be_sent),
     head |-> IF publish_requests_waiting_to_be_sent = << >> THEN 0
              ELSE Head(publish_requests_waiting_to_be_sent).n,
     held |-> IF pkt.type = "PubComp"
              THEN (IF pkt.id \in DOMAIN waiting_to_be_completed
                    THEN waiting_to_be_completed[pkt.id].n ELSE 0)
              ELSE (IF pkt.id \in DOMAIN waiting_to_be_acked
                    THEN waiting_to_be_acked[pkt.id].n ELSE 0),
     before |-> IF op = "new_connection" THEN Snapshot ELSE NoSnapshot]

----------------------------------------------------------------------------
Init ==
    /\ publish_request_recv = << >>
    /\ publish_requests_waiting_to_be_sent = << >>
    /\ waiting_to_be_acked = EmptyMap
    /\ waiting_to_be_released = {}
    /\ waiting_to_be_completed = EmptyMap
    /\ packet_identifiers = [in_use |-> {}, cursor |-> 1]
    /\ panicked = FALSE
    /\ submitted = 0
    /\ notified = [n \in 1 .. MaxSubmit |-> 0]
    /\ sent = 0
    /\ delivered = [i \in FlowIds |-> 0]
    /\ futures = [n \in 1 .. MaxSubmit |-> "None"]
    /\ stopped = FALSE
    /\ inbox = << >>
    /\ last = Call("init", NoPacket, FALSE, FALSE, FALSE, << >>, NoPublication,
                   << >>, << >>, << >>)

\* PublishHandle::publish: a request with a fresh ack_sender enters the
\* channel; the send fails, and the future with it, once the receiving end of
\* the channel is gone with the State. Nothing else makes the send fail: every
\* call sends through a clone of the Sender of its own.
Submit(qos) ==
    /\ ~panicked
    /\ submitted < MaxSubmit
    /\ publish_request_recv' =
            IF stopped THEN publish_request_recv
            ELSE Append(publish_request_recv, [n |-> submitted + 1, qos |-> qos])
    /\ submitted' = submitted + 1
    /\ futures' = [futures EXCEPT
                     ![submitted + 1] = IF stopped THEN "ClientDoesNotExist" ELSE "Pending"]
    /\ last' = [Call("publish", NoPacket, FALSE, FALSE, FALSE, << >>, NoPublication,
                     << >>, << >>, << >>)
                EXCEPT !.result = IF stopped THEN "ClientDoesNotExist" ELSE "Queued"]
    /\ UNCHANGED << publish_requests_waiting_to_be_sent, waiting_to_be_acked,
                    waiting_to_be_released, waiting_to_be_completed,
                    packet_identifiers, panicked, notified, sent, delivered,
                    stopped, inbox >>

\* State::poll with the inbound packet p (NoPacket: none).
Poll(p) ==
    /\ ~panicked /\ ~stopped
    /\ \E in \in {HandleInbound(p, Current)} :
       \E s \in {SendRequests(
                  [queue |-> publish_requests_waiting_to_be_sent \o publish_request_recv,
                   acked |-> in.acked, completed |-> in.completed, pool |-> in.pool,
                   packets |-> in.packets, signals |-> in.signals,
                   reserved |-> << >>, err |-> FALSE])} :
          IF in.panic
          THEN /\ panicked' = TRUE
               /\ last' = Call("poll", p, FALSE, FALSE, TRUE, << >>, NoPublication,
                               << >>, << >>, << >>)
               /\ UNCHANGED << publish_request_recv, publish_requests_waiting_to_be_sent,
                               waiting_to_be_acked, waiting_to_be_released,
                               waiting_to_be_completed, packet_identifiers,
                               submitted, notified, sent, delivered,
                               futures, stopped >>
          ELSE /\ publish_request_recv' = << >>
               /\ publish_requests_waiting_to_be_sent' = s.queue
               /\ waiting_to_be_acked' = s.acked
               /\ waiting_to_be_released' = in.released
               /\ waiting_to_be_completed' = in.completed
               /\ packet_identifiers' = s.pool
               /\ notified' = ApplySignals(notified, s.signals)
               /\ futures' = Resolved(futures, {sg.n : sg \in Range(s.signals)},
                                      Holders(s.queue, s.acked, in.completed))
               /\ sent' = IF s.err THEN sent
                          ELSE Highest(FirstTransmissions(s.packets), sent)
               /\ delivered' =
                    IF p.type = "Publish" /\ p.qos = "ExactlyOnce"
                       /\ ~s.err /\ in.pub # NoPublication
                    THEN [delivered EXCEPT ![p.id] = @ + 1]
                    ELSE IF p.type = "PubRel" /\ p.id \in waiting_to_be_released
                    THEN [delivered EXCEPT ![p.id] = 0]
                    ELSE delivered
               /\ last' = [Call("poll", p, FALSE, s.err, FALSE,
                                IF s.err THEN << >> ELSE s.packets,
                                IF s.err THEN NoPublication ELSE in.pub,
                                s.signals, in.discards, s.reserved)
                           EXCEPT !.built = IF s.err
                                            THEN [packets |-> s.packets, pub |-> in.pub]
                                            ELSE @]
               /\ UNCHANGED << panicked, submitted, stopped >>

\* State::new_connection(reset_session).
NewConnection(reset_session) ==
    /\ ~panicked /\ ~stopped
    /\ \E st \in {SessionAfter(reset_session, Current)} :
          /\ waiting_to_be_acked' = st.acked
          /\ waiting_to_be_released' = st.released
          /\ waiting_to_be_completed' = st.completed
          /\ packet_identifiers' = st.pool
          /\ delivered' = [i \in FlowIds |-> IF i \in st.released THEN delivered[i] ELSE 0]
          /\ futures' = Resolved(futures, {},
                                 Holders(publish_requests_waiting_to_be_sent \o publish_request_recv,
                                         st.acked, st.completed))
          /\ last' = Call("new_connection", NoPacket, reset_session, FALSE, FALSE,
                          Replay(st), NoPublication, << >>,
                          IF reset_session
                          THEN DiscardedAll(packet_identifiers, Ascending(waiting_to_be_released))
                          ELSE << >>,
                          << >>)
    /\ UNCHANGED << publish_request_recv, publish_requests_waiting_to_be_sent,
                    panicked, submitted, notified, sent, stopped, inbox >>

Next ==
    \/ \E qos \in QoS : Submit(qos)
    \/ \E p \in InboundPackets : Poll(p) /\ UNCHANGED inbox
    \/ \E reset_session \in BOOLEAN : NewConnection(reset_session)

Spec == Init /\ [][Next]_vars

----------------------------------------------------------------------------
\* The publish state with its callers: a caller may drop the future publish
\* returned, and the client may stop, which drops the State.

\* The packets poll is given in CallerSpec.
CallerPackets ==
    {NoPacket}
    \cup {Ack(t, i) : t \in {"PubAck", "PubComp", "PubRec"}, i \in Ids}
    \cup {Ack("PubRel", i) : i \in CallerServerIds}
    \cup {Publish("ExactlyOnce", i, FALSE, 0) : i \in CallerServerIds}

\* The caller drops the future of publication n before it resolved: the
\* ack_receiver is gone, the State is not touched.
DropFuture(n) ==
    /\ ~panicked
    /\ futures[n] = "Pending"
    /\ futures' = [futures EXCEPT ![n] = "Dropped"]
    /\ last' = Call("drop", NoPacket, FALSE, FALSE, FALSE, << >>, NoPublication,
                    << >>, << >>, << >>)
    /\ UNCHANGED << publish_request_recv, publish_requests_waiting_to_be_sent,
                    waiting_to_be_acked, waiting_to_be_released,
                    waiting_to_be_completed, packet_identifiers, panicked,
                    submitted, notified, sent, delivered, stopped, inbox >>

\* The client stops: the State is dropped, and with it the receiving end of
\* the channel and every ack_sender it holds.
Stop ==
    /\ ~panicked /\ ~stopped
    /\ stopped' = TRUE
    /\ publish_request_recv' = << >>
    /\ publish_requests_waiting_to_be_sent' = << >>
    /\ waiting_to_be_acked' = EmptyMap
    /\ waiting_to_be_released' = {}
    /\ waiting_to_be_completed' = EmptyMap
    /\ futures' = Resolved(futures, {}, {})
    /\ last' = Call("stop", NoPacket, FALSE, FALSE, FALSE, << >>, NoPublication,
                    << >>, << >>, << >>)
    /\ UNCHANGED << packet_identifiers, panicked, submitted, notified, sent,
                    delivered, inbox >>

CallerNext ==
    \/ \E qos \in QoS : submitted < MaxCallerSubmit /\ Submit(qos)
    \/ \E p \in CallerPackets : Poll(p) /\ UNCHANGED inbox
    \/ \E reset_session \in BOOLEAN : NewConnection(reset_session)
    \/ \E n \in 1 .. MaxCallerSubmit : DropFuture(n)
    \/ Stop

CallerSpec == Init /\ [][CallerNext]_vars

----------------------------------------------------------------------------
\* The publish state on one connection to a server that answers every PUBLISH
\* and PUBREL it is sent with the matching acknowledgement: every packet poll
\* returns is written to the server, and the answers come back in order, one
\* to each poll.

\* The server's answer to a packet of the client.
Answer(pkt) ==
    CASE pkt.type = "Publish" /\ pkt.qos = "AtLeastOnce" -> << Ack("PubAck", pkt.id) >>
      [] pkt.type = "Publish" /\ pkt.qos = "ExactlyOnce" -> << Ack("PubRec", pkt.id) >>
      [] pkt.type = "PubRel" -> << Ack("PubComp", pkt.id) >>
      [] OTHER -> << >>

RECURSIVE Answers(_)
Answers(packets) ==
    IF packets = << >> THEN << >>
    ELSE Answer(Head(packets)) \o Answers(Tail(packets))

\* poll, given the next packet of the server if there is one.
ServedPoll ==
    /\ \E p \in {IF inbox = << >> THEN NoPacket ELSE Head(inbox)} : Poll(p)
    /\ inbox' = (IF inbox = << >> THEN << >> ELSE Tail(inbox)) \o Answers(last'.packets)

ServedNext ==
    \/ \E qos \in QoS : Submit(qos)
    \/ ServedPoll

\* The client polls its publish state again and again.
ServedSpec == Init /\ [][ServedNext]_vars /\ WF_vars(ServedPoll)

----------------------------------------------------------------------------
\* Properties.

Keys(m) == DOMAIN m

IsPoll == last.op = "poll" /\ ~last.panic

IsNewConnection(reset_session) ==
    last.op = "new_connection" /\ last.reset = reset_session

\* C1: the ack_sender of a QoS 1 or QoS 2 publication is signalled at most
\* once, and only on the final acknowledgement of its QoS: on a PUBACK for an
\* AtLeastOnce publication, on a PUBCOMP for an ExactlyOnce publication.
C1_SignalledOnceOnFinalAck ==
    /\ \A n \in 1 .. MaxSubmit : notified[n] <= 1
    /\ \A sg \in Range(last.signals) :
          /\ sg.qos = "AtLeastOnce" => sg.by = "PubAck"
          /\ sg.qos = "ExactlyOnce" => sg.by = "PubComp"

\* C2: an inbound ExactlyOnce flow hands the user exactly one
\* ReceivedPublication between its first PUBLISH and its PUBREL, and every
\* duplicate (dup = true) PUBLISH in between yields PUBREC(id) and no
\* ReceivedPublication.
C2_OnePublicationPerInboundFlow ==
    /\ \A i \in ServerIds : delivered[i] <= 1
    /\ (IsPoll /\ last.pkt.type = "PubRel" /\ last.again) => last.flow = 1
    /\ (IsPoll /\ last.pkt.type = "Publish" /\ last.pkt.qos = "ExactlyOnce"
            /\ last.again /\ last.pkt.dup)
          => /\ last.pub = NoPublication
             /\ Ack("PubRec", last.pkt.id) \in Range(last.packets)

\* C3: reserve() as called by poll never returns an identifier that is still
\* a key of waiting_to_be_acked or waiting_to_be_completed.
C3_ReserveNeverOutstanding ==
    \A r \in Range(last.reserved) : ~r.outstanding

\* C4: no packet identifier is in two of waiting_to_be_acked,
\* waiting_to_be_released and waiting_to_be_completed.
C4_InFlightDisjoint ==
    /\ Keys(waiting_to_be_acked) \cap waiting_to_be_released = {}
    /\ Keys(waiting_to_be_acked) \cap Keys(waiting_to_be_completed) = {}
    /\ waiting_to_be_released \cap Keys(waiting_to_be_completed) = {}

\* C5: every discard the publish state makes targets an identifier the pool
\* holds as reserved at that moment.
C5_DiscardOnlyReserved ==
    \A d \in Range(last.discards) : d.reserved

\* C6: the first-transmission PUBLISH packets poll hands out follow the
\* order of submission: each call hands them out in increasing submission
\* number, all later than everything handed out before.
C6_SubmissionOrder ==
    IsPoll => Increasing(<< last.sent >> \o FirstTransmissions(last.packets))

\* C6 witness: a poll that found requests left queued by a poll that ended
\* with the pool-exhaustion error, and handed out at least two of them.
C6_Witness ==
    /\ IsPoll /\ ~last.err
    /\ last.stalled >= 2
    /\ Len(FirstTransmissions(last.packets)) >= 2

\* C7: after new_connection(true) waiting_to_be_completed is empty,
\* waiting_to_be_acked holds exactly the entries waiting_to_be_acked and
\* waiting_to_be_completed held before, waiting_to_be_released is empty and
\* its identifiers were discarded, and the replay holds the dup=true PUBLISH
\* of every entry that was past PUBREC, and no PUBREL and no PUBREC.
C7_ResetSession ==
    IsNewConnection(TRUE) =>
        /\ waiting_to_be_completed = EmptyMap
        /\ Keys(waiting_to_be_acked) = Keys(last.before.acked) \cup Keys(last.before.completed)
        /\ \A id \in Keys(last.before.acked) : waiting_to_be_acked[id] = last.before.acked[id]
        /\ \A id \in Keys(last.before.completed) :
              /\ waiting_to_be_acked[id] = last.before.completed[id]
              /\ last.before.completed[id].packet \in Range(last.packets)
              /\ last.before.completed[id].packet.dup
        /\ waiting_to_be_released = {}
        /\ \A id \in last.before.released :
              /\ id \in {d.id : d \in Range(last.discards)}
              /\ id \notin packet_identifiers.in_use
        /\ \A pkt \in Range(last.packets) : pkt.type \notin {"PubRel", "PubRec"}

\* C8: new_connection(false) changes none of the three in-flight structures,
\* the queued requests and the pool, and its replay holds one packet for every
\* member of each in-flight structure.
C8_KeepSession ==
    IsNewConnection(FALSE) =>
        /\ Snapshot = last.before
        /\ Len(last.packets) = Cardinality(Keys(waiting_to_be_acked))
                               + Cardinality(waiting_to_be_released)
                               + Cardinality(Keys(waiting_to_be_completed))
        /\ \A id \in Keys(waiting_to_be_acked) :
              waiting_to_be_acked[id].packet \in Range(last.packets)
        /\ \A id \in waiting_to_be_released : Ack("PubRec", id) \in Range(last.packets)
        /\ \A id \in Keys(waiting_to_be_completed) :
              waiting_to_be_completed[id].packet \in Range(last.packets)

\* C8 witness: a reconnect that kept the session with all three in-flight
\* structures and the request queue non-empty.
C8_Witness ==
    /\ IsNewConnection(FALSE)
    /\ waiting_to_be_acked # EmptyMap
    /\ waiting_to_be_released # {}
    /\ waiting_to_be_completed # EmptyMap
    /\ publish_requests_waiting_to_be_sent # << >>

\* C9: every PUBLISH stored in waiting_to_be_acked and waiting_to_be_completed
\* has dup=true, every PUBLISH of a replay has dup=true, and no packet
\* identifier occurs in two PUBLISH packets of one replay.
C9_StoredDupReplayedOnce ==
    /\ \A id \in Keys(waiting_to_be_acked) : waiting_to_be_acked[id].packet.dup
    /\ \A id \in Keys(waiting_to_be_completed) : waiting_to_be_completed[id].packet.dup
    /\ last.op = "new_connection" =>
          /\ \A pkt \in Range(last.packets) : pkt.type = "Publish" => pkt.dup
          /\ \A i, j \in 1 .. Len(last.packets) :
                (/\ i # j
                 /\ last.packets[i].type = "Publish"
                 /\ last.packets[j].type = "Publish")
                => last.packets[i].id # last.packets[j].id

\* The identifiers held when the last call started.
HeldBefore ==
    Keys(last.before.acked) \cup last.before.released
    \cup Keys(last.before.completed) \cup last.before.pool.in_use

\* C10: after new_connection(true) no identifier that was in flight or
\* reserved before is still in an in-flight structure or reserved in the pool.
C10_NothingHeldAfterReset ==
    IsNewConnection(TRUE) =>
        \A id \in HeldBefore :
            /\ id \notin Keys(waiting_to_be_acked)
            /\ id \notin waiting_to_be_released
            /\ id \notin Keys(waiting_to_be_completed)
            /\ id \notin packet_identifiers.in_use

\* C10, amended: after new_connection(true) no identifier is left in
\* waiting_to_be_released or waiting_to_be_completed and none that
\* waiting_to_be_released held is still reserved in the pool; the identifiers
\* of waiting_to_be_acked and waiting_to_be_completed all stay in
\* waiting_to_be_acked, and the pool keeps every other reservation.
C10_OnlyInboundFlowsForgotten ==
    IsNewConnection(TRUE) =>
        /\ waiting_to_be_released = {}
        /\ waiting_to_be_completed = EmptyMap
        /\ Keys(waiting_to_be_acked) = Keys(last.before.acked) \cup Keys(last.before.completed)
        /\ packet_identifiers.in_use = last.before.pool.in_use \ last.before.released

\* C10 witness: a session reset with publications awaiting PUBACK/PUBREC,
\* publications awaiting PUBCOMP and an inbound flow awaiting PUBREL.
C10_Witness ==
    /\ IsNewConnection(TRUE)
    /\ last.before.acked # EmptyMap
    /\ last.before.completed # EmptyMap
    /\ last.before.released # {}
    /\ Keys(last.before.acked) \cap Keys(last.before.completed) = {}

\* C11: a poll that returns the pool-exhaustion error leaves the request that
\* got no identifier at the head of publish_requests_waiting_to_be_sent, ahead
\* of every later request, a QoS 1 or QoS 2 request with its ack_sender not
\* signalled and no entry in waiting_to_be_acked; and the poll that later takes
\* such a request off the queue, an identifier being free, hands its PUBLISH
\* to the caller.
C11_FailingRequestStaysQueued ==
    /\ (IsPoll /\ last.err) =>
          /\ publish_requests_waiting_to_be_sent # << >>
          /\ publish_request_recv = << >>
          /\ \E r \in {Head(publish_requests_waiting_to_be_sent)} :
                /\ r.qos # "AtMostOnce"
                /\ notified[r.n] = 0
                /\ r.n \notin Stored(waiting_to_be_acked)
                /\ \A i \in 2 .. Len(publish_requests_waiting_to_be_sent) :
                      publish_requests_waiting_to_be_sent[i].n > r.n
    /\ (/\ IsPoll /\ last.head > 0
        /\ \/ publish_requests_waiting_to_be_sent = << >>
           \/ Head(publish_requests_waiting_to_be_sent).n # last.head)
          => last.head \in Range(FirstTransmissions(last.packets))

\* C12: the flow of a publication goes on whether or not the caller still
\* holds its future: a PUBACK removes the entry from waiting_to_be_acked,
\* calls its ack_sender and discards the identifier; a PUBREC moves the entry
\* to waiting_to_be_completed; a PUBCOMP removes it from there, calls its
\* ack_sender and discards the identifier; and new_connection replays the
\* stored PUBLISH of every entry.
C12_DroppedFutureFlowContinues ==
    /\ (IsPoll /\ last.pkt.type \in {"PubAck", "PubComp"} /\ last.held > 0) =>
          /\ last.held \notin Stored(waiting_to_be_acked)
          /\ last.held \notin Stored(waiting_to_be_completed)
          /\ last.held \in {sg.n : sg \in Range(last.signals)}
          /\ last.pkt.id \in {d.id : d \in Range(last.discards)}
    /\ (IsPoll /\ last.pkt.type = "PubRec" /\ last.held > 0) =>
          /\ last.held \notin Stored(waiting_to_be_acked)
          /\ last.pkt.id \in Keys(waiting_to_be_completed)
          /\ waiting_to_be_completed[last.pkt.id].n = last.held
          /\ last.discards = << >>
    /\ last.op = "new_connection" =>
          /\ \A id \in Keys(waiting_to_be_acked) :
                waiting_to_be_acked[id].packet \in Range(last.packets)
          /\ \A id \in Keys(waiting_to_be_completed) :
                waiting_to_be_completed[id].packet \in Range(last.packets)

\* C12 witness: a PUBCOMP completed the flow of a publication whose future
\* the caller had dropped.
C12_Witness ==
    /\ IsPoll /\ last.pkt.type = "PubComp" /\ last.held > 0
    /\ futures[last.held] = "Dropped"

\* C13: a publish made once the State is gone fails with ClientDoesNotExist
\* and its request goes nowhere; a future is Ok only if poll signalled the
\* ack_sender of its request; and a future whose ack_sender is gone from the
\* state without having been signalled is ClientDoesNotExist.
C13_ResolvesOnlyWhenSignalled ==
    /\ (last.op = "publish" /\ stopped) =>
          /\ last.result = "ClientDoesNotExist"
          /\ futures[submitted] = "ClientDoesNotExist"
          /\ publish_request_recv = << >>
    /\ \A n \in 1 .. MaxSubmit :
          /\ futures[n] = "Ok" => notified[n] >= 1
          /\ (/\ futures[n] \notin {"None", "Dropped"}
              /\ notified[n] = 0
              /\ n \notin Holders(publish_requests_waiting_to_be_sent \o publish_request_recv,
                                  waiting_to_be_acked, waiting_to_be_completed))
                => futures[n] = "ClientDoesNotExist"

\* C13 witness: a publish on the handle of a client that stopped while the
\* first publication, sent with an identifier, was awaiting its acknowledgement.
C13_Witness ==
    /\ stopped /\ last.op = "publish"
    /\ submitted = 2
    /\ packet_identifiers.in_use # {}
    /\ notified[1] = 0
    /\ futures[1] = "ClientDoesNotExist"

\* The requests the channel held when the last publish was made.
WaitingBefore ==
    IF last.result = "Queued"
    THEN Len(publish_request_recv) - 1
    ELSE Len(publish_request_recv)

\* C14: a publish made while the request channel holds more requests than
\* its buffer is answered NotReady, and its request does not enter the channel.
C14_NotReadyWhenFull ==
    (last.op = "publish" /\ ~stopped /\ WaitingBefore > ChannelBuffer) =>
        /\ last.result = "NotReady"
        /\ submitted \notin Requests(publish_request_recv)

\* A poll whose inbound packet p finds no entry under its identifier (in
\* waiting_to_be_released for a PUBREL, in waiting_to_be_acked otherwise)
\* does in the step no more than serve the queued requests: it does not
\* panic, waiting_to_be_released and waiting_to_be_completed stay as they
\* are, waiting_to_be_acked and the pool lose nothing, no identifier is
\* discarded and only QoS 0 requests are signalled; with no request queued
\* waiting_to_be_acked, the pool and the signal counts stay as they are.
UnknownIgnored ==
    /\ ~panicked'
    /\ waiting_to_be_released' = waiting_to_be_released
    /\ waiting_to_be_completed' = waiting_to_be_completed
    /\ \A id \in Keys(waiting_to_be_acked) : id \in Keys(waiting_to_be_acked')
    /\ packet_identifiers.in_use \subseteq packet_identifiers'.in_use
    /\ last'.discards = << >>
    /\ \A sg \in Range(last'.signals) : sg.by = "None"
    /\ (publish_requests_waiting_to_be_sent = << >> /\ publish_request_recv = << >>) =>
          /\ waiting_to_be_acked' = waiting_to_be_acked
          /\ packet_identifiers' = packet_identifiers
          /\ notified' = notified

\* C15: a poll given a PUBACK whose identifier is no key of
\* waiting_to_be_acked does not panic, changes none of the in-flight
\* structures and nothing in the pool on account of it, signals no ack_sender
\* and returns no packet for it: whatever it returns is a first transmission
\* of a queued request.
C15_UnknownPubAckIgnored ==
    [][(/\ last'.op = "poll"
        /\ last'.pkt.type = "PubAck"
        /\ last'.pkt.id \notin Keys(waiting_to_be_acked))
       => /\ UnknownIgnored
          /\ \A pkt \in Range(last'.packets) : pkt.type = "Publish" /\ ~pkt.dup]_vars

\* C15 witness: a PUBACK with an unknown identifier was polled while
\* publications were awaiting PUBACK or PUBREC and PUBCOMP.
C15_Witness ==
    /\ IsPoll /\ last.pkt.type = "PubAck" /\ last.held = 0
    /\ waiting_to_be_acked # EmptyMap
    /\ waiting_to_be_completed # EmptyMap

\* The QoS 1 and QoS 2 publications not yet through their flow: in a request
\* not yet sent or in an entry awaiting an acknowledgement.
Unfinished ==
    {r.n : r \in {q \in Range(publish_requests_waiting_to_be_sent \o publish_request_recv) :
                    q.qos # "AtMostOnce"}}
    \cup Stored(waiting_to_be_acked) \cup Stored(waiting_to_be_completed)

\* Every QoS 1 and QoS 2 publication submitted so far is through its flow:
\* its ack_sender was signalled, the in-flight structures are empty and
\* every identifier is free.
Quiescent ==
    /\ Unfinished = {}
    /\ \A n \in 1 .. submitted :
          n \notin Requests(publish_requests_waiting_to_be_sent \o publish_request_recv)
            => notified[n] >= 1
    /\ waiting_to_be_acked = EmptyMap
    /\ waiting_to_be_released = {}
    /\ waiting_to_be_completed = EmptyMap
    /\ packet_identifiers.in_use = {}

\* C16: on one connection to a server that answers every PUBLISH and PUBREL,
\* with every packet poll returns delivered and poll called again and again,
\* every QoS 1 or QoS 2 publication that was submitted eventually has its
\* ack_sender signalled and its identifier free again, and the three
\* in-flight structures are eventually empty, whatever polls ran into the
\* exhausted pool on the way.
C16_EveryPublicationCompletes == []<>Quiescent

\* C17: a poll that returns the pool-exhaustion error withholds nothing it
\* had built from its caller: the packets pushed for the inbound packet and
\* for the requests sent before the failing one are returned, and so is the
\* ReceivedPublication. (The State has no field that could keep them for a
\* later call.)
C17_NothingLostOnError ==
    (IsPoll /\ last.err) =>
        /\ \A pkt \in Range(last.built.packets) : pkt \in Range(last.packets)
        /\ last.built.pub # NoPublication => last.pub = last.built.pub

\* The packets of the last call from position from + 1 to from + count.
Segment(from, count) == [k \in 1 .. count |-> last.packets[from + k]]

AscendingIds(packets) ==
    \A k \in 1 .. Len(packets) - 1 : packets[k].id < packets[k + 1].id

\* C18: the replay of new_connection, whatever reset_session is, is the
\* stored PUBLISH of every entry of waiting_to_be_acked in ascending order of
\* identifier, then a PUBREC for every identifier of waiting_to_be_released in
\* ascending order, then the stored PUBLISH of every entry of
\* waiting_to_be_completed in ascending order of identifier.
C18_ReplayOrdered ==
    last.op = "new_connection" =>
        \E a \in {Cardinality(Keys(waiting_to_be_acked))} :
        \E r \in {Cardinality(waiting_to_be_released)} :
        \E c \in {Cardinality(Keys(waiting_to_be_completed))} :
            /\ Len(last.packets) = a + r + c
            /\ AscendingIds(Segment(0, a))
            /\ \A k \in 1 .. a :
                  /\ last.packets[k].id \in Keys(waiting_to_be_acked)
                  /\ last.packets[k] = waiting_to_be_acked[last.packets[k].id].packet
            /\ AscendingIds(Segment(a, r))
            /\ \A k \in a + 1 .. a + r :
                  /\ last.packets[k].id \in waiting_to_be_released
                  /\ last.packets[k] = Ack("PubRec", last.packets[k].id)
            /\ AscendingIds(Segment(a + r, c))
            /\ \A k \in a + r + 1 .. a + r + c :
                  /\ last.packets[k].id \in Keys(waiting_to_be_completed)
                  /\ last.packets[k] = waiting_to_be_completed[last.packets[k].id].packet

\* C18 witness: a replay of two inbound flows awaiting PUBREL between a
\* publication awaiting PUBREC or PUBACK and one awaiting PUBCOMP.
C18_Witness ==
    /\ IsNewConnection(FALSE)
    /\ waiting_to_be_acked # EmptyMap
    /\ Cardinality(waiting_to_be_released) = 2
    /\ waiting_to_be_completed # EmptyMap

\* How often pkt occurs in packets.
Count(packets, pkt) == Cardinality({k \in 1 .. Len(packets) : packets[k] = pkt})

\* C19: every poll given a PUBREC returns exactly one PUBREL of its
\* identifier, and every poll given a PUBREL exactly one PUBCOMP, the
\* identifier known or not; the entry of a known PUBREC moves from
\* waiting_to_be_acked to waiting_to_be_completed as it is, ack_sender
\* included; the identifier of a known PUBREL leaves waiting_to_be_released
\* and is discarded; an unknown identifier changes no in-flight structure and
\* nothing in the pool.
C19_PubRecPubRelAnswered ==
    [][(last'.op = "poll" /\ ~last'.panic) =>
        /\ last'.pkt.type = "PubRec" =>
              /\ Count(last'.packets, Ack("PubRel", last'.pkt.id)) = 1
              /\ IF last'.pkt.id \in Keys(waiting_to_be_acked)
                 THEN /\ last'.pkt.id \in Keys(waiting_to_be_completed')
                      /\ waiting_to_be_completed'[last'.pkt.id]
                            = waiting_to_be_acked[last'.pkt.id]
                      /\ waiting_to_be_acked[last'.pkt.id].n
                            \notin Stored(waiting_to_be_acked')
                      /\ last'.discards = << >>
                 ELSE UnknownIgnored
        /\ last'.pkt.type = "PubRel" =>
              /\ Count(last'.packets, Ack("PubComp", last'.pkt.id)) = 1
              /\ IF last'.pkt.id \in waiting_to_be_released
                 THEN /\ last'.pkt.id \notin waiting_to_be_released'
                      /\ last'.pkt.id \in {d.id : d \in Range(last'.discards)}
                 ELSE UnknownIgnored]_vars

\* The requests a poll starts with: those left queued and those in the channel.
Queued == publish_requests_waiting_to_be_sent \o publish_request_recv

\* C20: a poll sends a QoS 0 request as one PUBLISH tagged AtMostOnce and
\* signals its ack_sender in the same call, with no entry stored for it; a
\* poll that has only QoS 0 requests to send and no inbound packet reserves no
\* identifier and leaves the three in-flight structures and the pool as they
\* are; and an ack_sender of a QoS 0 request is signalled only in a call that
\* returns the PUBLISH of that request to its caller.
C20_AtMostOnceSentAndSignalled ==
    [][(last'.op = "poll" /\ ~last'.panic) =>
        /\ \A sg \in Range(last'.signals) :
              sg.by = "None" =>
                /\ sg.qos = "AtMostOnce"
                /\ sg.n \in Requests(Queued)
                /\ sg.n \notin Requests(publish_requests_waiting_to_be_sent')
                /\ sg.n \notin Stored(waiting_to_be_acked')
                /\ Count(last'.packets, Publish("AtMostOnce", 0, FALSE, sg.n)) = 1
        /\ \A pkt \in Range(last'.packets) :
              (pkt.type = "Publish" /\ pkt.qos = "AtMostOnce") =>
                  pkt.n \in {sg.n : sg \in Range(last'.signals)}
        /\ (/\ last'.pkt = NoPacket
            /\ \A q \in Range(Queued) : q.qos = "AtMostOnce") =>
              /\ last'.reserved = << >>
              /\ Len(last'.packets) = Len(Queued)
              /\ publish_requests_waiting_to_be_sent' = << >>
              /\ UNCHANGED << waiting_to_be_acked, waiting_to_be_released,
                              waiting_to_be_completed, packet_identifiers >>]_vars

\* C21: a poll given an ExactlyOnce PUBLISH with dup = false whose identifier
\* is already in waiting_to_be_released does not panic: it returns PUBREC of
\* that identifier and no ReceivedPublication and leaves the identifier in
\* waiting_to_be_released, as it does for the same packet with dup = true.
C21_UnflaggedDuplicateTolerated ==
    (/\ last.op = "poll"
     /\ last.pkt.type = "Publish" /\ last.pkt.qos = "ExactlyOnce"
     /\ ~last.pkt.dup /\ last.again)
      => /\ ~last.panic /\ ~panicked
         /\ last.pub = NoPublication
         /\ last.pkt.id \in waiting_to_be_released
         /\ ~last.err => Count(last.packets, Ack("PubRec", last.pkt.id)) = 1

====
